---- MODULE Spec2Model ----
(***************************************************************************)
(* DCE/RPC over UDP: the per-flow state machine of                         *)
(* rust/src/dcerpc/dcerpc_udp.rs (DCERPCUDPState).                         *)
(*                                                                         *)
(* A datagram is [len, decodes, hdr]: its total length in bytes, whether   *)
(* the field decoder accepts its first 80 bytes, and the header those      *)
(* bytes decode to.  Body bytes are not enumerated one by one: the byte at *)
(* offset k of the n-th datagram delivered to the flow is identified by    *)
(* (n, k), and a stub buffer is the sequence of the slices <<n, off, cnt>> *)
(* that extend_from_slice appended to it, so lengths keep their real size  *)
(* (80-byte header, 16-bit counters) while the contents stay exact.        *)
(*                                                                         *)
(* Unsigned 16-bit arithmetic wraps (% U16_MOD), which is what a build     *)
(* without overflow checks does; a build with overflow checks panics at    *)
(* the same additions.  Lengths are below 2^31, where the cast             *)
(* `input.len() as i32` is the identity.                                   *)
(***************************************************************************)
EXTENDS Integers, Sequences, FiniteSets, TLC

VARIABLES
    tx_id,          \* DCERPCUDPState.tx_id
    header,         \* DCERPCUDPState.header (Option<DCERPCHdrUdp>)
    transactions,   \* DCERPCUDPState.transactions
    fraglenleft,    \* DCERPCUDPState.fraglenleft
    uuid_list,      \* DCERPCUDPState.uuid_list
    input,          \* the datagram given to the last call
    result,         \* what the last call returned: "none" (no call yet), "ok",
                    \* "err"; "panic" and "diverged" if it did not return
    pre,            \* the flow state as it was when the last call began
    calls,          \* the handle_fragment_data calls the last call made
    ndgrams,        \* number of calls of handle_input_data so far
    naccepted,      \* how many of them had len >= 80, a decodable header, rpc_vers 4
    stub,           \* one isolated call of evaluate_stub_params (SpecStub)
    direct          \* the last call made on the state other than through
                    \* handle_input_data (SpecDirect, SpecSerial)

vars == <<tx_id, header, transactions, fraglenleft, uuid_list,
          input, result, pre, calls, ndgrams, naccepted, stub, direct>>

-----------------------------------------------------------------------------
(* Bounds of the model *)

MaxDatagrams == 2
MaxIter == 3

-----------------------------------------------------------------------------
(* Program constants *)

DCERPC_UDP_HDR_LEN == 80
DCERPC_TYPE_REQUEST == 0
DCERPC_TYPE_RESPONSE == 2
PFC_FIRST_FRAG == 1
U16_MOD == 65536
I32_MAX == 2147483647

Min(a, b) == IF a <= b THEN a ELSE b

RECURSIVE BitAnd(_, _)
BitAnd(a, b) ==
    IF a = 0 \/ b = 0 THEN 0
    ELSE (a % 2) * (b % 2) + 2 * BitAnd(a \div 2, b \div 2)

RECURSIVE BitOr(_, _)
BitOr(a, b) ==
    IF a = 0 THEN b
    ELSE IF b = 0 THEN a
    ELSE (IF a % 2 = 1 \/ b % 2 = 1 THEN 1 ELSE 0) + 2 * BitOr(a \div 2, b \div 2)

\* u16::rotate_left(8)
rotate_left_8(x) == ((x * 256) % U16_MOD) + (x \div 256)

AsU16(n) == n % U16_MOD
AsI32(n) == IF n <= I32_MAX THEN n ELSE n - I32_MAX - I32_MAX - 2

-----------------------------------------------------------------------------
(* Data *)

NoHeader ==
    [some |-> FALSE, rpc_vers |-> 0, pkt_type |-> 0, flags1 |-> 0, drep0 |-> 0,
     serial_hi |-> 0, serial_lo |-> 0, fraglen |-> 0, activityuuid |-> 0]

Hdr(vers, type, fl, id, flen) ==
    [some |-> TRUE, rpc_vers |-> vers, pkt_type |-> type, flags1 |-> fl,
     drep0 |-> id.drep0, serial_hi |-> id.serial_hi, serial_lo |-> id.serial_lo,
     fraglen |-> flen, activityuuid |-> id.activityuuid]

DCERPCTransaction_new ==
    [id |-> 0, call_id |-> 0, endianness |-> 0,
     stub_data_buffer_ts |-> <<>>, stub_data_buffer_len_ts |-> 0,
     stub_data_buffer_tc |-> <<>>, stub_data_buffer_len_tc |-> 0,
     req_done |-> FALSE, resp_done |-> FALSE,
     frag_cnt_ts |-> 0, frag_cnt_tc |-> 0]

\* DCERPCUDPState::new
new ==
    [tx_id |-> 0, header |-> NoHeader, transactions |-> <<>>,
     fraglenleft |-> 0, uuid_list |-> <<>>]

State ==
    [tx_id |-> tx_id, header |-> header, transactions |-> transactions,
     fraglenleft |-> fraglenleft, uuid_list |-> uuid_list]

\* Number of bytes stored in a buffer (Vec::len)
RECURSIVE BufBytes(_)
BufBytes(buf) ==
    IF buf = <<>> THEN 0 ELSE buf[1][3] + BufBytes(Tail(buf))

-----------------------------------------------------------------------------
(* Inputs *)

PktTypes == {DCERPC_TYPE_REQUEST, 1, DCERPC_TYPE_RESPONSE}
Flags1 == {8, 9}
\* drep[0], the two serial bytes and the activity UUID of a header
CallIds ==
    { [drep0 |-> 0,  serial_hi |-> 1, serial_lo |-> 0, activityuuid |-> 1],
      [drep0 |-> 16, serial_hi |-> 1, serial_lo |-> 0, activityuuid |-> 2] }
\* <<declared fragment length, number of body bytes after the header>>
FragBody ==
    { <<8, 3>>, <<83, 0>>, <<83, 3>>, <<83, 40000>>, <<40000, 39920>>,
      <<40000, 40000>>, <<40000, 65541>> }

AnyId == CHOOSE id \in CallIds : TRUE

ShortDatagrams ==
    { [len |-> n, decodes |-> FALSE, hdr |-> NoHeader] : n \in {0, 79} }
MalformedDatagrams ==
    { [len |-> DCERPC_UDP_HDR_LEN + 3, decodes |-> FALSE, hdr |-> NoHeader] }
BadVersionDatagrams ==
    { [len |-> DCERPC_UDP_HDR_LEN + 3, decodes |-> TRUE,
       hdr |-> Hdr(5, DCERPC_TYPE_REQUEST, 9, AnyId, 83)] }
GoodDatagrams ==
    { [len |-> DCERPC_UDP_HDR_LEN + fb[2], decodes |-> TRUE,
       hdr |-> Hdr(4, t, fl, id, fb[1])] :
         t \in PktTypes, fl \in Flags1, id \in CallIds, fb \in FragBody }
Datagrams ==
    ShortDatagrams \cup MalformedDatagrams \cup BadVersionDatagrams
        \cup GoodDatagrams

NoInput == [len |-> 0, decodes |-> FALSE, hdr |-> NoHeader]

-----------------------------------------------------------------------------
(* parser::parse_dcerpc_udp_header: the 80-byte field decoder *)

parse_dcerpc_udp_header(d) ==
    IF d.len < DCERPC_UDP_HDR_LEN THEN [ok |-> FALSE, leftover |-> 0, header |-> NoHeader]
    ELSE IF ~d.decodes THEN [ok |-> FALSE, leftover |-> 0, header |-> NoHeader]
    ELSE [ok |-> TRUE, leftover |-> d.len - DCERPC_UDP_HDR_LEN, header |-> d.hdr]

-----------------------------------------------------------------------------
(* Header accessors *)

Some(v) == [some |-> TRUE, v |-> v]
None == [some |-> FALSE, v |-> 0]
unwrap_or(o, dflt) == IF o.some THEN o.v ELSE dflt

get_hdr_pkt_type(s) == IF s.header.some THEN Some(s.header.pkt_type) ELSE None
get_hdr_flags1(s) == IF s.header.some THEN Some(s.header.flags1) ELSE None
get_hdr_drep_0(s) == IF s.header.some THEN s.header.drep0 ELSE 0
get_hdr_fraglen(s) == IF s.header.some THEN Some(s.header.fraglen) ELSE None

-----------------------------------------------------------------------------
(* Transactions *)

\* evaluate_serial_no with the test on the endianness bit inverted
evaluate_serial_no_negated_test(s) ==
    LET endianness == get_hdr_drep_0(s)
        serial_hi == IF s.header.some THEN s.header.serial_hi ELSE 0
        serial_lo == IF s.header.some THEN s.header.serial_lo ELSE 0
    IN  IF BitAnd(endianness, 16) # 0
        THEN BitOr(rotate_left_8(serial_lo), serial_hi)
        ELSE BitOr(rotate_left_8(serial_hi), serial_lo)

\* evaluate_serial_no taking serial_lo as the high byte in both branches
evaluate_serial_no_same_order(s) ==
    LET serial_hi == IF s.header.some THEN s.header.serial_hi ELSE 0
        serial_lo == IF s.header.some THEN s.header.serial_lo ELSE 0
    IN  BitOr(rotate_left_8(serial_lo), serial_hi)

evaluate_serial_no(s) ==
    LET endianness == get_hdr_drep_0(s)
        serial_hi == IF s.header.some THEN s.header.serial_hi ELSE 0
        serial_lo == IF s.header.some THEN s.header.serial_lo ELSE 0
    IN  IF BitAnd(endianness, 16) = 0
        THEN BitOr(rotate_left_8(serial_lo), serial_hi)
        ELSE BitOr(rotate_left_8(serial_hi), serial_lo)

\* create_tx without `self.tx_id += 1`
create_tx_no_increment(s, serial_no) ==
    LET endianness == BitAnd(get_hdr_drep_0(s), 16)
        tx == [DCERPCTransaction_new EXCEPT
                  !.id = s.tx_id, !.call_id = serial_no, !.endianness = endianness]
    IN  [tx |-> tx, s |-> s]

\* create_tx with `self.tx_id += 2`
create_tx_skips_id(s, serial_no) ==
    LET endianness == BitAnd(get_hdr_drep_0(s), 16)
        tx == [DCERPCTransaction_new EXCEPT
                  !.id = s.tx_id, !.call_id = serial_no, !.endianness = endianness]
    IN  [tx |-> tx, s |-> [s EXCEPT !.tx_id = s.tx_id + 2]]

\* returns the new transaction and the state with tx_id advanced
create_tx(s, serial_no) ==
    LET endianness == BitAnd(get_hdr_drep_0(s), 16)
        tx == [DCERPCTransaction_new EXCEPT
                  !.id = s.tx_id, !.call_id = serial_no, !.endianness = endianness]
    IN  [tx |-> tx, s |-> [s EXCEPT !.tx_id = s.tx_id + 1]]

\* find_tx returning the first stored transaction whatever its call id
find_tx_any_call_id(s, serial_no) ==
    IF Len(s.transactions) = 0 THEN 0 ELSE 1

\* find_tx returning the last stored transaction with this call id
find_tx_last_match(s, serial_no) ==
    LET hits == { i \in 1..Len(s.transactions) :
                    s.transactions[i].call_id = serial_no }
    IN  IF hits = {} THEN 0 ELSE CHOOSE i \in hits : \A j \in hits : i >= j

\* index of the first stored transaction with this call id, 0 for None
find_tx(s, serial_no) ==
    LET hits == { i \in 1..Len(s.transactions) :
                    s.transactions[i].call_id = serial_no }
    IN  IF hits = {} THEN 0 ELSE CHOOSE i \in hits : \A j \in hits : i <= j

-----------------------------------------------------------------------------
(* Stub assembly.  inp is the slice handed in: [id, off, avail], the bytes *)
(* of datagram id from offset off on, avail of them.                       *)

\* evaluate_stub_params without `*stub_data_buffer_len += stub_len`
evaluate_stub_params_no_len_update(inp, input_len, hdrflags, lenleft, stub_data_buffer, stub_data_buffer_len) ==
    LET stub_len == Min(lenleft, input_len)
    IN  IF stub_len = 0
        THEN [ret |-> 0, buf |-> stub_data_buffer, len |-> stub_data_buffer_len,
              oob |-> FALSE]
        ELSE [ret |-> stub_len,
              buf |-> Append(stub_data_buffer, <<inp.id, inp.off, stub_len>>),
              len |-> IF BitAnd(hdrflags, PFC_FIRST_FRAG) > 0 THEN 0
                      ELSE stub_data_buffer_len,
              oob |-> FALSE]

\* evaluate_stub_params taking input_len bytes whatever lenleft is
evaluate_stub_params_no_min(inp, input_len, hdrflags, lenleft, stub_data_buffer, stub_data_buffer_len) ==
    LET stub_len == input_len
    IN  IF stub_len = 0
        THEN [ret |-> 0, buf |-> stub_data_buffer, len |-> stub_data_buffer_len,
              oob |-> FALSE]
        ELSE LET len0 == IF BitAnd(hdrflags, PFC_FIRST_FRAG) > 0 THEN 0
                         ELSE stub_data_buffer_len
             IN  [ret |-> stub_len,
                  buf |-> Append(stub_data_buffer, <<inp.id, inp.off, stub_len>>),
                  len |-> (len0 + stub_len) % U16_MOD,
                  oob |-> FALSE]

\* evaluate_stub_params resetting the length before the `stub_len == 0` return
evaluate_stub_params_reset_first(inp, input_len, hdrflags, lenleft, stub_data_buffer, stub_data_buffer_len) ==
    LET stub_len == Min(lenleft, input_len)
        len0 == IF BitAnd(hdrflags, PFC_FIRST_FRAG) > 0 THEN 0
                ELSE stub_data_buffer_len
    IN  IF stub_len = 0
        THEN [ret |-> 0, buf |-> stub_data_buffer, len |-> len0, oob |-> FALSE]
        ELSE [ret |-> stub_len,
              buf |-> Append(stub_data_buffer, <<inp.id, inp.off, stub_len>>),
              len |-> (len0 + stub_len) % U16_MOD,
              oob |-> FALSE]

\* evaluate_stub_params with `*stub_data_buffer_len += input_len`
evaluate_stub_params_len_adds_input_len(inp, input_len, hdrflags, lenleft, stub_data_buffer, stub_data_buffer_len) ==
    LET stub_len == Min(lenleft, input_len)
    IN  IF stub_len = 0
        THEN [ret |-> 0, buf |-> stub_data_buffer, len |-> stub_data_buffer_len,
              oob |-> FALSE]
        ELSE LET len0 == IF BitAnd(hdrflags, PFC_FIRST_FRAG) > 0 THEN 0
                         ELSE stub_data_buffer_len
             IN  [ret |-> stub_len,
                  buf |-> Append(stub_data_buffer, <<inp.id, inp.off, stub_len>>),
                  len |-> (len0 + input_len) % U16_MOD,
                  oob |-> FALSE]

evaluate_stub_params(inp, input_len, hdrflags, lenleft, stub_data_buffer, stub_data_buffer_len) ==
    LET stub_len == Min(lenleft, input_len)
    IN  IF stub_len = 0
        THEN [ret |-> 0, buf |-> stub_data_buffer, len |-> stub_data_buffer_len,
              oob |-> FALSE]
        ELSE IF stub_len > inp.avail
        THEN \* &input[..stub_len] out of range: panic after the reset, before
             \* the append
             [ret |-> 0, buf |-> stub_data_buffer,
              len |-> IF BitAnd(hdrflags, PFC_FIRST_FRAG) > 0 THEN 0
                      ELSE stub_data_buffer_len,
              oob |-> TRUE]
        ELSE LET len0 == IF BitAnd(hdrflags, PFC_FIRST_FRAG) > 0 THEN 0
                         ELSE stub_data_buffer_len
             IN  [ret |-> stub_len,
                  buf |-> Append(stub_data_buffer, <<inp.id, inp.off, stub_len>>),
                  len |-> (len0 + stub_len) % U16_MOD,
                  oob |-> FALSE]

\* the match on the packet type: which direction's buffer is assembled into
dispatch_default_ts(hdrtype) ==
    IF hdrtype = DCERPC_TYPE_RESPONSE THEN "tc" ELSE "ts"

\* the match with the two directions exchanged
dispatch_swapped(hdrtype) ==
    IF hdrtype = DCERPC_TYPE_REQUEST THEN "tc"
    ELSE IF hdrtype = DCERPC_TYPE_RESPONSE THEN "ts"
    ELSE "none"

dispatch(hdrtype) ==
    IF hdrtype = DCERPC_TYPE_REQUEST THEN "ts"
    ELSE IF hdrtype = DCERPC_TYPE_RESPONSE THEN "tc"
    ELSE "none"

handle_fragment_data(s, inp, input_len) ==
    LET hdrflags1 == unwrap_or(get_hdr_flags1(s), 0)
        lenleft == s.fraglenleft
        hdrtype == unwrap_or(get_hdr_pkt_type(s), 0)
        serial_no == evaluate_serial_no(s)
        i == find_tx(s, serial_no)
    IN  IF i = 0 THEN [ret |-> 0, s |-> s, found |-> FALSE, oob |-> FALSE]
        ELSE LET tx == s.transactions[i] IN
        IF dispatch(hdrtype) = "ts"
        THEN LET r == evaluate_stub_params(inp, input_len, hdrflags1, lenleft,
                          tx.stub_data_buffer_ts, tx.stub_data_buffer_len_ts)
                 tx2 == [tx EXCEPT !.stub_data_buffer_ts = r.buf,
                                   !.stub_data_buffer_len_ts = r.len,
                                   !.req_done = TRUE,
                                   !.frag_cnt_ts = tx.frag_cnt_ts + 1]
             IN  IF r.oob
                 THEN [ret |-> 0,
                       s |-> [s EXCEPT !.transactions[i].stub_data_buffer_len_ts = r.len],
                       found |-> TRUE, oob |-> TRUE]
                 ELSE [ret |-> r.ret,
                       s |-> [s EXCEPT !.transactions[i] = tx2,
                                       !.fraglenleft = (s.fraglenleft - r.ret) % U16_MOD],
                       found |-> TRUE, oob |-> FALSE]
        ELSE IF dispatch(hdrtype) = "tc"
        THEN LET r == evaluate_stub_params(inp, input_len, hdrflags1, lenleft,
                          tx.stub_data_buffer_tc, tx.stub_data_buffer_len_tc)
                 tx2 == [tx EXCEPT !.stub_data_buffer_tc = r.buf,
                                   !.stub_data_buffer_len_tc = r.len,
                                   !.resp_done = TRUE,
                                   !.frag_cnt_tc = tx.frag_cnt_tc + 1]
             IN  IF r.oob
                 THEN [ret |-> 0,
                       s |-> [s EXCEPT !.transactions[i].stub_data_buffer_len_tc = r.len],
                       found |-> TRUE, oob |-> TRUE]
                 ELSE [ret |-> r.ret,
                       s |-> [s EXCEPT !.transactions[i] = tx2,
                                       !.fraglenleft = (s.fraglenleft - r.ret) % U16_MOD],
                       found |-> TRUE, oob |-> FALSE]
        ELSE [ret |-> 0, s |-> s, found |-> TRUE, oob |-> FALSE]

-----------------------------------------------------------------------------
(* Header processing *)

\* process_header pushing the UUID and installing the header before the
\* rpc_vers check
process_header_early_install(s, d) ==
    LET p == parse_dcerpc_udp_header(d)
    IN  IF ~p.ok THEN [ret |-> -1, s |-> s]
        ELSE LET s1 == [s EXCEPT
                          !.uuid_list = Append(s.uuid_list, p.header.activityuuid),
                          !.header = p.header]
             IN  IF p.header.rpc_vers # 4 THEN [ret |-> -1, s |-> s1]
                 ELSE [ret |-> AsI32(d.len - p.leftover), s |-> s1]

\* process_header pushing the UUID only if uuid_list does not hold it yet
process_header_dedup_uuid(s, d) ==
    LET p == parse_dcerpc_udp_header(d)
    IN  IF ~p.ok THEN [ret |-> -1, s |-> s]
        ELSE IF p.header.rpc_vers # 4 THEN [ret |-> -1, s |-> s]
        ELSE [ret |-> AsI32(d.len - p.leftover),
              s |-> [s EXCEPT
                       !.uuid_list =
                           IF \E i \in 1..Len(s.uuid_list) :
                                 s.uuid_list[i] = p.header.activityuuid
                           THEN s.uuid_list
                           ELSE Append(s.uuid_list, p.header.activityuuid),
                       !.header = p.header]]

process_header(s, d) ==
    LET p == parse_dcerpc_udp_header(d)
    IN  IF ~p.ok THEN [ret |-> -1, s |-> s]
        ELSE IF p.header.rpc_vers # 4 THEN [ret |-> -1, s |-> s]
        ELSE [ret |-> AsI32(d.len - p.leftover),
              s |-> [s EXCEPT !.uuid_list = Append(s.uuid_list, p.header.activityuuid),
                              !.header = p.header]]

-----------------------------------------------------------------------------
(* handle_input_data *)

\* the loop condition without `parsed < fraglen`
LoopCond_no_fraglen(parsed, fraglen, input_left) ==
    parsed >= DCERPC_UDP_HDR_LEN /\ input_left > 0

\* the condition of the body loop
LoopCond(parsed, fraglen, input_left) ==
    parsed >= DCERPC_UDP_HDR_LEN /\ parsed < fraglen /\ input_left > 0

\* the progress test without `retval > 0`
progress_accepts_zero(retval, input_left) ==
    retval <= AsU16(input_left)

\* the count handle_fragment_data returned is usable
progress(retval, input_left) ==
    retval > 0 /\ retval <= AsU16(input_left)

\* One record of calls: the arguments and outcome of one handle_fragment_data
CallRec(s, parsed, input_left, d, r) ==
    [parsed |-> parsed, input_left |-> input_left,
     input_len |-> AsU16(input_left), avail |-> d.len - parsed,
     lenleft |-> s.fraglenleft, found |-> r.found, ret |-> r.ret,
     lenleft_after |-> r.s.fraglenleft, oob |-> r.oob]

RECURSIVE body_loop(_, _, _, _, _, _, _, _)
body_loop(s, d, n, parsed, input_left, fraglen, log, fuel) ==
    IF ~LoopCond(parsed, fraglen, input_left)
    THEN [s |-> s, parsed |-> parsed, input_left |-> input_left, calls |-> log,
          diverged |-> FALSE, panicked |-> FALSE]
    ELSE IF fuel = 0
    THEN [s |-> s, parsed |-> parsed, input_left |-> input_left, calls |-> log,
          diverged |-> TRUE, panicked |-> FALSE]
    ELSE LET r == handle_fragment_data(s,
                      [id |-> n, off |-> parsed, avail |-> d.len - parsed],
                      AsU16(input_left))
             log2 == Append(log, CallRec(s, parsed, input_left, d, r))
         IN  IF r.oob
             THEN [s |-> r.s, parsed |-> parsed, input_left |-> input_left,
                   calls |-> log2, diverged |-> FALSE, panicked |-> TRUE]
             ELSE IF progress(r.ret, input_left)
             THEN body_loop(r.s, d, n, parsed + r.ret, input_left - r.ret,
                            fraglen, log2, fuel - 1)
             ELSE IF input_left > 0
             THEN body_loop(r.s, d, n, parsed - input_left, 0, fraglen, log2,
                            fuel - 1)
             ELSE body_loop(r.s, d, n, parsed, input_left, fraglen, log2,
                            fuel - 1)

\* the length gate with <= for <
TooShort_le(d) == AsI32(d.len) <= DCERPC_UDP_HDR_LEN

\* a push that reuses a stored transaction with the same call id
store_tx_unless_present(s, tx) ==
    IF \E i \in 1..Len(s.transactions) : s.transactions[i].call_id = tx.call_id
    THEN s
    ELSE [s EXCEPT !.transactions = Append(s.transactions, tx)]

\* the length gate
TooShort(d) == AsI32(d.len) < DCERPC_UDP_HDR_LEN

\* handle_input_data without the push
store_tx_no_push(s, tx) == s

\* self.transactions.push(tx)
store_tx(s, tx) == [s EXCEPT !.transactions = Append(s.transactions, tx)]

\* handle_input_data with `input_left = input.len() as i32`, the header's
\* bytes not taken off
handle_input_data_input_left_is_len(s, d, n) ==
    IF TooShort(d)
    THEN [result |-> "err", s |-> s, calls |-> <<>>]
    ELSE LET h == process_header(s, d) IN
    IF h.ret = -1
    THEN [result |-> "err", s |-> h.s, calls |-> <<>>]
    ELSE LET parsed == h.ret
             input_left == AsI32(d.len)
             fraglen == unwrap_or(get_hdr_fraglen(h.s), 0)
             s1 == [h.s EXCEPT !.fraglenleft = fraglen]
             serial_no == evaluate_serial_no(s1)
             c == create_tx(s1, serial_no)
             s2 == store_tx(c.s, c.tx)
             l == body_loop(s2, d, n, parsed, input_left, fraglen, <<>>, MaxIter)
         IN  [result |-> IF l.diverged THEN "diverged"
                         ELSE IF l.panicked THEN "panic" ELSE "ok",
              s |-> l.s, calls |-> l.calls]

\* n is the ordinal of the datagram on this flow (it names the bytes)
handle_input_data(s, d, n) ==
    IF TooShort(d)
    THEN [result |-> "err", s |-> s, calls |-> <<>>]
    ELSE LET h == process_header(s, d) IN
    IF h.ret = -1
    THEN [result |-> "err", s |-> h.s, calls |-> <<>>]
    ELSE LET parsed == h.ret
             input_left == AsI32(d.len) - parsed
             fraglen == unwrap_or(get_hdr_fraglen(h.s), 0)
             s1 == [h.s EXCEPT !.fraglenleft = fraglen]
             serial_no == evaluate_serial_no(s1)
             c == create_tx(s1, serial_no)
             s2 == store_tx(c.s, c.tx)
             l == body_loop(s2, d, n, parsed, input_left, fraglen, <<>>, MaxIter)
         IN  [result |-> IF l.diverged THEN "diverged"
                         ELSE IF l.panicked THEN "panic" ELSE "ok",
              s |-> l.s, calls |-> l.calls]

-----------------------------------------------------------------------------
(* The state machine *)

\* Arguments of one evaluate_stub_params call: the slice (avail bytes of
\* datagram 9 from offset 80), input_len, flags1, lenleft, and the buffer
\* with its logical length as earlier fragments left them
PriorBufs ==
    { [buf |-> <<>>, len |-> 0],
      [buf |-> << <<1, 80, 4>> >>, len |-> 4],
      [buf |-> << <<1, 80, 4>>, <<2, 80, 6>> >>, len |-> 6],
      [buf |-> << <<1, 80, 40000>>, <<2, 80, 25533>> >>, len |-> 65533] }
StubArgs ==
    { [inp |-> [id |-> 9, off |-> 80, avail |-> n + extra], input_len |-> n,
       hdrflags |-> fl, lenleft |-> r, prior |-> pb] :
         n \in {0, 3, 5}, extra \in {0, 2}, fl \in {0, 1, 8, 9},
         r \in {0, 3, 5, 65535}, pb \in PriorBufs }
NoArgs ==
    [inp |-> [id |-> 0, off |-> 0, avail |-> 0], input_len |-> 0,
     hdrflags |-> 0, lenleft |-> 0, prior |-> [buf |-> <<>>, len |-> 0]]
NoOut == [ret |-> 0, buf |-> <<>>, len |-> 0, oob |-> FALSE]

NoStub == [called |-> FALSE, args |-> NoArgs, out |-> NoOut]

\* op: which function was called; ret, ret_swapped: what it returned; found,
\* oob: whether handle_fragment_data found a transaction, and whether the
\* slice was too short for the take; input_len: its length argument; n, nhdr:
\* the calls made directly so far, and the process_header calls among them
\* that returned a count
NoDirect ==
    [op |-> "none", ret |-> 0, ret_swapped |-> 0, found |-> FALSE,
     oob |-> FALSE, input_len |-> 0, n |-> 0, nhdr |-> 0]

Init ==
    /\ tx_id = new.tx_id
    /\ header = new.header
    /\ transactions = new.transactions
    /\ fraglenleft = new.fraglenleft
    /\ uuid_list = new.uuid_list
    /\ input = NoInput
    /\ result = "none"
    /\ pre = new
    /\ calls = <<>>
    /\ ndgrams = 0
    /\ naccepted = 0
    /\ stub = NoStub
    /\ direct = NoDirect

\* rs_dcerpc_udp_parse -> handle_input_data on one datagram
HandleInputData(d) ==
    /\ ndgrams < MaxDatagrams
    /\ \E r \in {handle_input_data(State, d, ndgrams + 1)} :
        /\ tx_id' = r.s.tx_id
        /\ header' = r.s.header
        /\ transactions' = r.s.transactions
        /\ fraglenleft' = r.s.fraglenleft
        /\ uuid_list' = r.s.uuid_list
        /\ result' = r.result
        /\ calls' = r.calls
    /\ input' = d
    /\ pre' = State
    /\ ndgrams' = ndgrams + 1
    /\ naccepted' = IF d.len >= DCERPC_UDP_HDR_LEN /\ d.decodes /\ d.hdr.rpc_vers = 4
                    THEN naccepted + 1 ELSE naccepted
    /\ direct' = [direct EXCEPT !.op = "none"]
    /\ UNCHANGED stub

Next == \E d \in Datagrams : HandleInputData(d)

Spec == Init /\ [][Next]_vars

\* evaluate_stub_params on its own, over StubArgs
InitStub ==
    /\ tx_id = new.tx_id
    /\ header = new.header
    /\ transactions = new.transactions
    /\ fraglenleft = new.fraglenleft
    /\ uuid_list = new.uuid_list
    /\ input = NoInput
    /\ result = "none"
    /\ pre = new
    /\ calls = <<>>
    /\ ndgrams = 0
    /\ naccepted = 0
    /\ stub \in { [called |-> FALSE, args |-> a, out |-> NoOut] : a \in StubArgs }
    /\ direct = NoDirect

EvalStub ==
    /\ ~stub.called
    /\ stub' = [stub EXCEPT
                  !.called = TRUE,
                  !.out = evaluate_stub_params(stub.args.inp, stub.args.input_len,
                              stub.args.hdrflags, stub.args.lenleft,
                              stub.args.prior.buf, stub.args.prior.len)]
    /\ UNCHANGED <<tx_id, header, transactions, fraglenleft, uuid_list,
                   input, result, pre, calls, ndgrams, naccepted, direct>>

NextStub == EvalStub

SpecStub == InitStub /\ [][NextStub]_vars

\* evaluate_serial_no on its own, over the serial bytes and drep[0] of the
\* installed header
SerialBytes == {0, 1, 2, 127, 128, 255}
DrepBytes == {0, 1, 16, 17, 239, 255}

\* the header with serial_hi and serial_lo exchanged and bit 0x10 of drep[0]
\* inverted
SwapByteOrder(h) ==
    [h EXCEPT !.serial_hi = h.serial_lo, !.serial_lo = h.serial_hi,
              !.drep0 = IF BitAnd(h.drep0, 16) = 0 THEN h.drep0 + 16
                        ELSE h.drep0 - 16]

InitSerial ==
    /\ tx_id = new.tx_id
    /\ header \in { Hdr(4, DCERPC_TYPE_REQUEST, 8,
                         [drep0 |-> e, serial_hi |-> x, serial_lo |-> y,
                          activityuuid |-> 1], 83) :
                       e \in DrepBytes, x \in SerialBytes, y \in SerialBytes }
    /\ transactions = new.transactions
    /\ fraglenleft = new.fraglenleft
    /\ uuid_list = new.uuid_list
    /\ input = NoInput
    /\ result = "none"
    /\ pre = new
    /\ calls = <<>>
    /\ ndgrams = 0
    /\ naccepted = 0
    /\ stub = NoStub
    /\ direct = NoDirect

\* evaluate_serial_no on the installed header, and on the same header in the
\* other byte order
EvaluateSerialNo ==
    /\ direct.op = "none"
    /\ direct' = [direct EXCEPT
                    !.op = "evaluate_serial_no",
                    !.ret = evaluate_serial_no(State),
                    !.ret_swapped = evaluate_serial_no(
                        [State EXCEPT !.header = SwapByteOrder(header)]),
                    !.n = direct.n + 1]
    /\ UNCHANGED <<tx_id, header, transactions, fraglenleft, uuid_list,
                   input, result, pre, calls, ndgrams, naccepted, stub>>

NextSerial == EvaluateSerialNo

SpecSerial == InitSerial /\ [][NextSerial]_vars

\* process_header and handle_fragment_data called on the state directly (as
\* the unit tests do), between calls of handle_input_data; MaxOps calls in
\* all
MaxOps == 3

DirectCallIds ==
    CallIds \cup { [drep0 |-> 17, serial_hi |-> 2, serial_lo |-> 3, activityuuid |-> 1] }
DirectPktTypes == {DCERPC_TYPE_REQUEST, 1}
DirectFragBody == { <<83, 3>> }
DirectDatagrams ==
    ShortDatagrams \cup MalformedDatagrams \cup BadVersionDatagrams
        \cup { [len |-> DCERPC_UDP_HDR_LEN + fb[2], decodes |-> TRUE,
                hdr |-> Hdr(4, t, fl, id, fb[1])] :
                  t \in DirectPktTypes, fl \in Flags1, id \in DirectCallIds,
                  fb \in DirectFragBody }
\* the length argument of a direct handle_fragment_data call; the slice
\* passed holds that many bytes
DirectInputLens == {0, 3, 80}

ProcessHeader(d) ==
    /\ ndgrams + direct.n < MaxOps
    /\ \E r \in {process_header(State, d)} :
        /\ tx_id' = r.s.tx_id
        /\ header' = r.s.header
        /\ transactions' = r.s.transactions
        /\ fraglenleft' = r.s.fraglenleft
        /\ uuid_list' = r.s.uuid_list
        /\ direct' = [direct EXCEPT
                        !.op = "process_header", !.ret = r.ret,
                        !.n = direct.n + 1,
                        !.nhdr = IF r.ret = -1 THEN direct.nhdr
                                 ELSE direct.nhdr + 1]
    /\ input' = d
    /\ pre' = State
    /\ result' = "none"
    /\ calls' = <<>>
    /\ UNCHANGED <<ndgrams, naccepted, stub>>

\* the slice is named by the ordinal of the direct call, after those of the
\* datagrams
HandleFragmentData(input_len) ==
    /\ ndgrams + direct.n < MaxOps
    /\ \E r \in {handle_fragment_data(State,
                     [id |-> MaxDatagrams + 2 + direct.n, off |-> 0,
                      avail |-> input_len], input_len)} :
        /\ tx_id' = r.s.tx_id
        /\ header' = r.s.header
        /\ transactions' = r.s.transactions
        /\ fraglenleft' = r.s.fraglenleft
        /\ uuid_list' = r.s.uuid_list
        /\ direct' = [direct EXCEPT
                        !.op = "handle_fragment_data", !.ret = r.ret,
                        !.found = r.found, !.oob = r.oob,
                        !.input_len = input_len, !.n = direct.n + 1]
    /\ input' = NoInput
    /\ pre' = State
    /\ result' = "none"
    /\ calls' = <<>>
    /\ UNCHANGED <<ndgrams, naccepted, stub>>

NextDirect ==
    \/ \E d \in DirectDatagrams : ndgrams + direct.n < MaxOps /\ HandleInputData(d)
    \/ \E d \in DirectDatagrams : ProcessHeader(d)
    \/ \E n \in DirectInputLens : HandleFragmentData(n)

SpecDirect == Init /\ [][NextDirect]_vars

-----------------------------------------------------------------------------
(* Vocabulary of the properties *)

Called == result # "none"
\* the validation gate as the properties state it
GatePasses(d) == d.len >= 80 /\ d.decodes /\ d.hdr.rpc_vers = 4
BodyLen(d) == d.len - 80
IsReqResp(d) == d.hdr.pkt_type \in {DCERPC_TYPE_REQUEST, DCERPC_TYPE_RESPONSE}
DirBuf(tx, d) ==
    IF d.hdr.pkt_type = DCERPC_TYPE_REQUEST THEN tx.stub_data_buffer_ts
    ELSE tx.stub_data_buffer_tc
DirLen(tx, d) ==
    IF d.hdr.pkt_type = DCERPC_TYPE_REQUEST THEN tx.stub_data_buffer_len_ts
    ELSE tx.stub_data_buffer_len_tc
OtherLen(tx, d) ==
    IF d.hdr.pkt_type = DCERPC_TYPE_REQUEST THEN tx.stub_data_buffer_len_tc
    ELSE tx.stub_data_buffer_len_ts
NPre == Len(pre.transactions)
NewTx == transactions[Len(transactions)]
\* the stored transaction the last datagram's bytes went to: the earliest one
\* carrying the call id of the transaction created for that datagram
Matched ==
    CHOOSE i \in 1..Len(transactions) :
        /\ transactions[i].call_id = NewTx.call_id
        /\ \A j \in 1..(i - 1) : transactions[j].call_id # NewTx.call_id
\* that transaction as it was before the call (empty if it is the new one)
MatchedBefore ==
    IF Matched <= NPre THEN pre.transactions[Matched] ELSE DCERPCTransaction_new
Appended == BufBytes(DirBuf(transactions[Matched], input))
                - BufBytes(DirBuf(MatchedBefore, input))
\* the i-th stored transaction as it was before the last call changed it:
\* as stored when the call began, or as create_tx returned it
Before(i) ==
    IF i <= NPre THEN pre.transactions[i]
    ELSE [DCERPCTransaction_new EXCEPT
             !.id = transactions[i].id, !.call_id = transactions[i].call_id,
             !.endianness = transactions[i].endianness]
\* the sum of the counts a sequence of handle_fragment_data calls returned
RECURSIVE SumRet(_)
SumRet(log) == IF log = <<>> THEN 0 ELSE log[1].ret + SumRet(Tail(log))
\* the stored transactions, older than the one just created, with its call id
Earlier == { i \in 1..NPre : pre.transactions[i].call_id = NewTx.call_id }
\* the first n bytes of a buffer (all of it if it holds fewer): what a
\* reader of the buffer up to the logical length n sees
RECURSIVE FirstBytes(_, _)
FirstBytes(buf, n) ==
    IF n = 0 \/ buf = <<>> THEN <<>>
    ELSE IF buf[1][3] <= n
    THEN <<buf[1]>> \o FirstBytes(Tail(buf), n - buf[1][3])
    ELSE << <<buf[1][1], buf[1][2], n>> >>
\* the logical contents of the last datagram's direction of a transaction
Logical(tx) == FirstBytes(DirBuf(tx, input), DirLen(tx, input))
\* the slices the last call appended to the matched transaction
NewSlices ==
    SubSeq(DirBuf(transactions[Matched], input),
           Len(DirBuf(MatchedBefore, input)) + 1,
           Len(DirBuf(transactions[Matched], input)))
\* the serial number of the header installed when the last call began
PreSerial ==
    IF ~pre.header.some THEN 0
    ELSE IF (pre.header.drep0 \div 16) % 2 = 0
    THEN pre.header.serial_lo * 256 + pre.header.serial_hi
    ELSE pre.header.serial_hi * 256 + pre.header.serial_lo

-----------------------------------------------------------------------------
(* C1: a datagram that is shorter than 80 bytes, or whose header does not  *)
(* decode, or whose rpc_vers is not 4, is answered Err and leaves every    *)
(* field of the flow state as it was.                                      *)
C1_RejectionAtomic ==
    (Called /\ ~GatePasses(input)) => (result = "err" /\ State = pre)

\* a header with rpc_vers 5 rejected on a flow that already holds a transaction
C1_Witness ==
    /\ result = "err"
    /\ input.len >= 80 /\ input.decodes /\ input.hdr.rpc_vers # 4
    /\ NPre > 0 /\ pre.header.some

(* C2: every datagram that passes the gate appends exactly one new         *)
(* transaction at the end of the store, also when its call id is already   *)
(* stored; nothing is removed or reordered; the store is as long as the    *)
(* number of datagrams that passed the gate.                               *)
C2_OneTxPerAccepted ==
    /\ Len(transactions) = naccepted
    /\ Called =>
        /\ Len(transactions) = NPre + (IF GatePasses(input) THEN 1 ELSE 0)
        /\ \A i \in 1..NPre :
              /\ i <= Len(transactions)
              /\ transactions[i].id = pre.transactions[i].id
              /\ transactions[i].call_id = pre.transactions[i].call_id
              /\ transactions[i].endianness = pre.transactions[i].endianness
        /\ GatePasses(input) => NewTx.id = pre.tx_id

\* a second datagram with the call id of a stored transaction was accepted
C2_Witness ==
    /\ result = "ok" /\ GatePasses(input)
    /\ Len(transactions) = 2
    /\ transactions[1].call_id = transactions[2].call_id

(* C3: an accepted request or response datagram with declared fragment     *)
(* length f and b <= 65535 body bytes: fraglenleft is f at the first       *)
(* assembly, min(f, b) bytes are appended to the matched transaction's     *)
(* buffer of that direction if f > 80 and b > 0 and none otherwise, and    *)
(* fraglenleft ends as f minus the bytes appended.  On a fresh flow a      *)
(* request with b = f > 80 ends with fraglenleft 0 and request stub        *)
(* length f.                                                               *)
C3_BytesAssembled ==
    (Called /\ GatePasses(input) /\ IsReqResp(input) /\ BodyLen(input) <= 65535) =>
        LET f == input.hdr.fraglen
            b == BodyLen(input)
            expect == IF f > 80 /\ b > 0 THEN Min(f, b) ELSE 0
        IN  /\ result = "ok"
            /\ Appended = expect
            /\ fraglenleft = f - Appended
            /\ calls # <<>> => calls[1].lenleft = f
            /\ (pre = new /\ b = f /\ f > 80
                    /\ input.hdr.pkt_type = DCERPC_TYPE_REQUEST) =>
                  /\ fraglenleft = 0
                  /\ transactions[1].stub_data_buffer_len_ts = f

\* the case of test_handle_input_data_udp_full_body: body as long as declared
C3_Witness ==
    /\ result = "ok" /\ pre = new
    /\ input.hdr.pkt_type = DCERPC_TYPE_REQUEST
    /\ BodyLen(input) = input.hdr.fraglen /\ input.hdr.fraglen > 80
    /\ transactions[1].stub_data_buffer_len_ts = input.hdr.fraglen
    /\ fraglenleft = 0

(* C4, as stated: a single request or response datagram on a fresh flow    *)
(* that declares fragment length L and carries L-80 body bytes ends with   *)
(* fraglenleft 0 and directional stub length L-80.                         *)
C4_Original ==
    (Called /\ pre = new /\ GatePasses(input) /\ IsReqResp(input)
        /\ BodyLen(input) = input.hdr.fraglen - 80) =>
        /\ fraglenleft = 0
        /\ DirLen(transactions[1], input) = input.hdr.fraglen - 80

(* C4, amended: under the same conditions fraglenleft ends at 80 (the      *)
(* declared length L less the L-80 bytes assembled) and the directional    *)
(* stub length is L-80.                                                    *)
C4_HeaderLengthRemains ==
    (Called /\ pre = new /\ GatePasses(input) /\ IsReqResp(input)
        /\ BodyLen(input) = input.hdr.fraglen - 80) =>
        /\ result = "ok"
        /\ fraglenleft = 80
        /\ DirLen(transactions[1], input) = input.hdr.fraglen - 80
        /\ BufBytes(DirBuf(transactions[1], input)) = input.hdr.fraglen - 80

C4_Witness ==
    /\ result = "ok" /\ pre = new /\ IsReqResp(input)
    /\ input.hdr.fraglen > 80
    /\ BodyLen(input) = input.hdr.fraglen - 80
    /\ fraglenleft = 80
    /\ DirLen(transactions[1], input) = BodyLen(input)

(* C5, as stated: no two stored transactions have the same call_id.        *)
C5_Original ==
    \A i, j \in 1..Len(transactions) :
        i # j => transactions[i].call_id # transactions[j].call_id

(* C5, amended: no two stored transactions have the same id; the call_id   *)
(* is shared by as many stored transactions as accepted datagrams carried  *)
(* that serial number.                                                     *)
C5_IdsUnique ==
    /\ \A i, j \in 1..Len(transactions) :
          i # j => transactions[i].id # transactions[j].id
    /\ (Called /\ GatePasses(input)) =>
          Cardinality({ i \in 1..Len(transactions) :
                          transactions[i].call_id = NewTx.call_id })
            = 1 + Cardinality({ i \in 1..NPre :
                                  pre.transactions[i].call_id = NewTx.call_id })

\* two stored transactions with one call id and different ids
C5_Witness ==
    /\ Len(transactions) = 2
    /\ transactions[1].call_id = transactions[2].call_id
    /\ transactions[1].id # transactions[2].id

(* C6: every handle_fragment_data call returns a count that is at most     *)
(* fraglenleft as it was at the call and lowers fraglenleft by that count, *)
(* so fraglenleft is always between 0 and the fragment length declared by  *)
(* the installed header.                                                   *)
C6_NoUnderflow ==
    /\ \A k \in 1..Len(calls) :
          /\ calls[k].ret <= calls[k].lenleft
          /\ calls[k].lenleft_after = calls[k].lenleft - calls[k].ret
    /\ fraglenleft >= 0
    /\ fraglenleft <= (IF header.some THEN header.fraglen ELSE 0)
    /\ fraglenleft < U16_MOD

\* a call that took some but not all of the remaining length
C6_Witness ==
    \E k \in 1..Len(calls) :
        /\ calls[k].ret > 0
        /\ calls[k].ret < calls[k].lenleft
        /\ fraglenleft = calls[k].lenleft - calls[k].ret

(* C7: handle_input_data answers Err exactly when the datagram is shorter  *)
(* than 80 bytes or its header is rejected, and Ok for every other         *)
(* datagram, also when the body loop stops on a zero count with bytes      *)
(* left unconsumed.                                                        *)
C7_ErrIffRejected ==
    Called =>
        /\ result = "err" <=> ~GatePasses(input)
        /\ GatePasses(input) => result = "ok"

\* Ok although the last assembly call returned 0 with input left
C7_Witness ==
    /\ result = "ok"
    /\ calls # <<>>
    /\ calls[Len(calls)].ret = 0
    /\ calls[Len(calls)].input_left > 0

(* C8: an accepted datagram whose packet type is neither request nor       *)
(* response changes no stored transaction, adds one empty transaction,     *)
(* leaves fraglenleft at the declared fragment length, and is answered Ok. *)
C8_OtherTypeAssemblesNothing ==
    (Called /\ GatePasses(input) /\ ~IsReqResp(input)) =>
        /\ result = "ok"
        /\ fraglenleft = input.hdr.fraglen
        /\ Len(transactions) = NPre + 1
        /\ SubSeq(transactions, 1, NPre) = pre.transactions
        /\ NewTx = [DCERPCTransaction_new EXCEPT
                       !.id = NewTx.id, !.call_id = NewTx.call_id,
                       !.endianness = NewTx.endianness]

\* such a datagram, with body bytes inside the declared length, arriving
\* when a transaction with its call id already holds stub data
C8_Witness ==
    /\ result = "ok" /\ ~IsReqResp(input)
    /\ input.hdr.fraglen > 80 /\ BodyLen(input) > 0
    /\ NPre > 0
    /\ pre.transactions[1].call_id = NewTx.call_id
    /\ pre.transactions[1].stub_data_buffer_len_ts > 0
    /\ calls # <<>>

(* C9: a call of evaluate_stub_params with remaining length r and input    *)
(* length n appends exactly take = min(r, n) bytes, the first take bytes   *)
(* of the input, and returns take; with take = 0 it returns 0 and changes  *)
(* neither the buffer nor its logical length, first-fragment flag or not.  *)
C9_AppendsTake ==
    stub.called =>
        LET a == stub.args
            o == stub.out
            take == IF a.lenleft <= a.input_len THEN a.lenleft ELSE a.input_len
        IN  /\ o.ret = take
            /\ BufBytes(o.buf) = BufBytes(a.prior.buf) + take
            /\ take > 0 =>
                  o.buf = a.prior.buf \o << <<a.inp.id, a.inp.off, take>> >>
            /\ take = 0 =>
                  o.ret = 0 /\ o.buf = a.prior.buf /\ o.len = a.prior.len
            /\ ~o.oob

\* nothing to take, flag set, a buffer that holds data
C9_Witness ==
    /\ stub.called
    /\ stub.args.lenleft = 0 /\ stub.args.input_len > 0
    /\ stub.args.hdrflags = 9
    /\ stub.args.prior.len > 0
    /\ stub.out.ret = 0 /\ stub.out.len = stub.args.prior.len

(* C10: when a fragment is assembled with take > 0, the logical length of  *)
(* the target direction is take if the header's first-fragment flag is     *)
(* set, and the prior length plus take if it is clear; the other           *)
(* direction's logical length is not changed.                              *)
C10_Original ==
    (Called /\ result = "ok" /\ GatePasses(input) /\ IsReqResp(input)
        /\ calls # <<>> /\ calls[1].ret > 0) =>
        LET take == calls[1].ret
            set == (input.hdr.flags1 % 2) = 1
        IN  /\ DirLen(transactions[Matched], input) =
                  (IF set THEN 0 ELSE DirLen(MatchedBefore, input)) + take
            /\ OtherLen(transactions[Matched], input) = OtherLen(MatchedBefore, input)

(* C11: the transaction created for an accepted datagram carries as call   *)
(* id the serial number of that datagram's own header, which is the        *)
(* installed one: serial_lo*256 + serial_hi when bit 0x10 of drep[0] is 0, *)
(* serial_hi*256 + serial_lo when it is 1; its endianness field is         *)
(* drep[0] & 0x10.                                                         *)
C11_CallIdIsSerial ==
    (Called /\ GatePasses(input)) =>
        LET h == input.hdr
            bit == (h.drep0 \div 16) % 2
        IN  /\ header = h
            /\ NewTx.call_id = (IF bit = 0 THEN h.serial_lo * 256 + h.serial_hi
                                ELSE h.serial_hi * 256 + h.serial_lo)
            /\ NewTx.endianness = 16 * bit
            /\ NewTx.call_id = evaluate_serial_no([new EXCEPT !.header = h])

\* a header with drep[0] = 0x11 accepted on a flow whose installed header had
\* the other byte order
C11_Witness ==
    /\ result = "ok" /\ GatePasses(input)
    /\ pre.header.some /\ pre.header.drep0 = 0
    /\ input.hdr.drep0 = 17
    /\ NewTx.call_id = 515 /\ NewTx.endianness = 16

(* C12: for all bytes x and y, the serial derived with endianness bit 0    *)
(* from serial_hi = x, serial_lo = y equals the serial derived with        *)
(* endianness bit 1 from serial_hi = y, serial_lo = x.                     *)
C12_SerialSwapSymmetric ==
    direct.op = "evaluate_serial_no" =>
        /\ direct.ret = direct.ret_swapped
        /\ direct.ret = (IF (header.drep0 \div 16) % 2 = 0
                         THEN header.serial_lo * 256 + header.serial_hi
                         ELSE header.serial_hi * 256 + header.serial_lo)

\* two different bytes, endianness bit clear among other bits of drep[0]
C12_Witness ==
    /\ direct.op = "evaluate_serial_no"
    /\ header.drep0 = 239
    /\ header.serial_hi = 255 /\ header.serial_lo = 1
    /\ direct.ret = 511 /\ direct.ret_swapped = 511

(* C13: process_header on a buffer that starts with a well-formed header   *)
(* with rpc_vers 4 returns 80, installs that header in place of the one    *)
(* installed before, and appends one entry with the header's activity UUID *)
(* to uuid_list, also when uuid_list holds that UUID already: uuid_list    *)
(* has one entry per accepted header.                                      *)
C13_HeaderInstalled ==
    /\ Len(uuid_list) = naccepted + direct.nhdr
    /\ (direct.op = "process_header" /\ GatePasses(input)) =>
          /\ direct.ret = 80
          /\ header = input.hdr
          /\ uuid_list = Append(pre.uuid_list, input.hdr.activityuuid)

\* a longer buffer, another header installed before, the UUID seen before
C13_Witness ==
    /\ direct.op = "process_header" /\ direct.ret = 80
    /\ input.len > 80
    /\ pre.header.some /\ pre.header # header
    /\ Len(uuid_list) = 2 /\ uuid_list[1] = uuid_list[2]

(* C14: a call of handle_fragment_data made while no stored transaction    *)
(* has the serial of the installed header as call id returns 0, assembles  *)
(* no bytes and leaves fraglenleft and every stored transaction as they    *)
(* were.                                                                   *)
C14_NoMatchDrops ==
    (/\ direct.op = "handle_fragment_data"
     /\ \A i \in 1..NPre : pre.transactions[i].call_id # PreSerial) =>
        /\ direct.ret = 0
        /\ ~direct.found
        /\ fraglenleft = pre.fraglenleft
        /\ transactions = pre.transactions
        /\ State = pre

\* bytes offered and length left, a transaction of another call stored with
\* stub data
C14_Witness ==
    /\ direct.op = "handle_fragment_data" /\ direct.ret = 0
    /\ direct.input_len > 0 /\ pre.fraglenleft > 0
    /\ pre.header.some
    /\ NPre > 0 /\ pre.transactions[1].stub_data_buffer_len_ts > 0
    /\ \A i \in 1..NPre : pre.transactions[i].call_id # PreSerial

(* C15: an accepted request datagram changes, among the stored             *)
(* transactions, only the matched one, and of it only the request buffer,  *)
(* the request length, req_done (true once the assembler was called) and   *)
(* frag_cnt_ts (one more per assembler call); its response fields and      *)
(* every other transaction stay as they were.  The same holds for a        *)
(* response datagram with the directions exchanged.                        *)
C15_DirectionFramed ==
    (Called /\ GatePasses(input) /\ IsReqResp(input)) =>
        LET m == Matched
            k == Len(calls)
            b == Before(m)
            t == transactions[m]
        IN  /\ \A i \in 1..Len(transactions) : i # m => transactions[i] = Before(i)
            /\ \A c \in 1..k : calls[c].found
            /\ input.hdr.pkt_type = DCERPC_TYPE_REQUEST =>
                  t = [b EXCEPT !.stub_data_buffer_ts = t.stub_data_buffer_ts,
                                !.stub_data_buffer_len_ts = t.stub_data_buffer_len_ts,
                                !.req_done = (b.req_done \/ k > 0),
                                !.frag_cnt_ts = b.frag_cnt_ts + k]
            /\ input.hdr.pkt_type = DCERPC_TYPE_RESPONSE =>
                  t = [b EXCEPT !.stub_data_buffer_tc = t.stub_data_buffer_tc,
                                !.stub_data_buffer_len_tc = t.stub_data_buffer_len_tc,
                                !.resp_done = (b.resp_done \/ k > 0),
                                !.frag_cnt_tc = b.frag_cnt_tc + k]

\* a request assembled into a stored transaction that holds response data,
\* next to the transaction created for the request
C15_Witness ==
    /\ result = "ok" /\ input.hdr.pkt_type = DCERPC_TYPE_REQUEST
    /\ NPre = 1 /\ Matched = 1
    /\ pre.transactions[1].stub_data_buffer_len_tc > 0
    /\ pre.transactions[1].resp_done /\ ~pre.transactions[1].req_done
    /\ calls # <<>> /\ calls[1].ret > 0
    /\ transactions[1].req_done /\ transactions[1].frag_cnt_ts = Len(calls)
    /\ transactions[1].stub_data_buffer_len_ts > 0
    /\ transactions[1].stub_data_buffer_len_tc = pre.transactions[1].stub_data_buffer_len_tc

(* C16: when an accepted datagram carries the call id of transactions      *)
(* stored earlier, its body bytes are assembled into the earliest-inserted *)
(* of them and the transaction created for the datagram stays as created:  *)
(* empty buffers, zero lengths, zero fragment counters, done flags false.  *)
(* The created transaction receives its own datagram's bytes only when no  *)
(* earlier stored transaction has its call id.                             *)
C16_FirstMatch ==
    (Called /\ GatePasses(input) /\ IsReqResp(input)) =>
        LET target == IF Earlier = {} THEN Len(transactions)
                      ELSE CHOOSE i \in Earlier : \A j \in Earlier : i <= j
        IN  /\ BufBytes(DirBuf(transactions[target], input))
                  = BufBytes(DirBuf(Before(target), input)) + SumRet(calls)
            /\ \A i \in 1..Len(transactions) :
                  i # target => transactions[i] = Before(i)
            /\ Earlier # {} => NewTx = Before(Len(transactions))
            /\ NewTx # Before(Len(transactions)) => Earlier = {}

\* bytes of the second datagram of a call went to the transaction of the
\* first, and the second transaction is empty
C16_Witness ==
    /\ result = "ok" /\ IsReqResp(input)
    /\ Earlier # {} /\ SumRet(calls) > 0
    /\ BufBytes(DirBuf(transactions[1], input))
          > BufBytes(DirBuf(pre.transactions[1], input))
    /\ NewTx.stub_data_buffer_ts = <<>> /\ NewTx.stub_data_buffer_tc = <<>>
    /\ NewTx.frag_cnt_ts = 0 /\ NewTx.frag_cnt_tc = 0
    /\ ~NewTx.req_done /\ ~NewTx.resp_done

(* C17: the body loop of handle_input_data ends for every datagram: a      *)
(* call of handle_fragment_data that returns a count between 1 and the     *)
(* remaining input lowers the remaining input by that count, any other     *)
(* count is the last call of the loop, and the loop makes no more calls    *)
(* than the datagram has body bytes.                                       *)
C17_LoopTerminates ==
    Called =>
        /\ result # "diverged"
        /\ Len(calls) <= (IF GatePasses(input) THEN BodyLen(input) ELSE 0)
        /\ \A k \in 1..Len(calls) :
              LET c == calls[k]
                  usable == c.ret > 0 /\ c.ret <= c.input_len
              IN  /\ c.input_left > 0
                  /\ ~usable => k = Len(calls)
                  /\ (usable /\ k < Len(calls)) =>
                        /\ calls[k + 1].input_left = c.input_left - c.ret
                        /\ calls[k + 1].input_left < c.input_left
                        /\ calls[k + 1].parsed = c.parsed + c.ret

\* a loop of two calls: one that consumed bytes, then one that returned 0
\* with input left and ended the loop
C17_Witness ==
    /\ result = "ok" /\ Len(calls) = 2
    /\ calls[1].ret > 0 /\ calls[1].ret <= calls[1].input_len
    /\ calls[2].ret = 0 /\ calls[2].input_left > 0

(* C18: in every state reached from a new flow state by handle_input_data *)
(* calls, the i-th stored transaction (counting from 0, in insertion       *)
(* order) has id i, so the ids are distinct and increase in insertion      *)
(* order, and tx_id, the number of stored transactions, the number of      *)
(* uuid_list entries and the number of accepted datagrams are equal.       *)
C18_IdsSequential ==
    /\ \A i \in 1..Len(transactions) : transactions[i].id = i - 1
    /\ \A i, j \in 1..Len(transactions) :
          i < j => transactions[i].id < transactions[j].id
    /\ tx_id = Len(transactions)
    /\ Len(transactions) = Len(uuid_list)
    /\ Len(uuid_list) = naccepted

\* two transactions stored, after one datagram was rejected in between or
\* both were accepted with one call id
C18_Witness ==
    /\ naccepted = 2 /\ tx_id = 2
    /\ transactions[1].id = 0 /\ transactions[2].id = 1
    /\ transactions[1].call_id = transactions[2].call_id
    /\ Len(uuid_list) = 2

(* C19, as stated: the first `logical length` bytes of a stub buffer are   *)
(* the bytes assembled into that direction since its last first-fragment   *)
(* reset, in arrival order: after a datagram whose bytes were assembled,   *)
(* they are the bytes of that datagram alone if its first-fragment flag is *)
(* set, and the logical contents before it followed by its bytes if not.   *)
C19_Original ==
    (Called /\ result = "ok" /\ GatePasses(input) /\ IsReqResp(input)
        /\ SumRet(calls) > 0) =>
        Logical(transactions[Matched]) =
            (IF input.hdr.flags1 % 2 = 1 THEN <<>> ELSE Logical(MatchedBefore))
                \o NewSlices

(* C20, as stated: at the addition `*stub_data_buffer_len += stub_len` the *)
(* logical length before it (0 after a first-fragment reset) plus the      *)
(* bytes taken never exceeds 65535, for any sequence of accepted           *)
(* datagrams.                                                              *)
C20_Original ==
    (Called /\ GatePasses(input) /\ IsReqResp(input) /\ SumRet(calls) > 0) =>
        (IF input.hdr.flags1 % 2 = 1 THEN 0 ELSE DirLen(MatchedBefore, input))
            + SumRet(calls) <= 65535

(* C21: in every reachable state the logical stub length of each           *)
(* direction of each transaction is at most the number of bytes stored in  *)
(* that direction's buffer, and no call makes a stored buffer shorter: it  *)
(* keeps the bytes it held, also on a first-fragment reset.                *)
C21_LengthWithinBuffer ==
    /\ \A i \in 1..Len(transactions) :
          /\ transactions[i].stub_data_buffer_len_ts
                <= BufBytes(transactions[i].stub_data_buffer_ts)
          /\ transactions[i].stub_data_buffer_len_tc
                <= BufBytes(transactions[i].stub_data_buffer_tc)
    /\ \A i \in 1..NPre :
          /\ i <= Len(transactions)
          /\ BufBytes(transactions[i].stub_data_buffer_ts)
                >= BufBytes(pre.transactions[i].stub_data_buffer_ts)
          /\ BufBytes(transactions[i].stub_data_buffer_tc)
                >= BufBytes(pre.transactions[i].stub_data_buffer_tc)
          /\ SubSeq(transactions[i].stub_data_buffer_ts, 1,
                    Len(pre.transactions[i].stub_data_buffer_ts))
                = pre.transactions[i].stub_data_buffer_ts
          /\ SubSeq(transactions[i].stub_data_buffer_tc, 1,
                    Len(pre.transactions[i].stub_data_buffer_tc))
                = pre.transactions[i].stub_data_buffer_tc

\* a first-fragment reset on a buffer that held data: the buffer grew and the
\* logical length is below its size
C21_Witness ==
    /\ result = "ok" /\ IsReqResp(input) /\ input.hdr.flags1 % 2 = 1
    /\ NPre = 1 /\ Matched = 1 /\ SumRet(calls) > 0
    /\ BufBytes(DirBuf(pre.transactions[1], input)) > 0
    /\ BufBytes(DirBuf(transactions[1], input))
          > BufBytes(DirBuf(pre.transactions[1], input))
    /\ DirLen(transactions[1], input) = SumRet(calls)
    /\ DirLen(transactions[1], input) < BufBytes(DirBuf(transactions[1], input))

(* C22: every handle_fragment_data call made by the body loop of           *)
(* handle_input_data finds a stored transaction whose call id is the       *)
(* serial of the installed header: the transaction pushed before the loop  *)
(* has that call id, and the header installed for the datagram is still    *)
(* the installed one when the loop is over.                                *)
C22_LoopFindsTx ==
    (Called /\ GatePasses(input)) =>
        /\ \A k \in 1..Len(calls) : calls[k].found
        /\ header = input.hdr
        /\ \E i \in 1..Len(transactions) :
              transactions[i].call_id = evaluate_serial_no(State)
        /\ NewTx.call_id = evaluate_serial_no(State)

\* a loop call on a flow that stored only a transaction of another call id:
\* the one found is the one just pushed
C22_Witness ==
    /\ result = "ok" /\ calls # <<>> /\ calls[1].found
    /\ NPre = 1 /\ Earlier = {}
    /\ pre.transactions[1].call_id # NewTx.call_id
    /\ Matched = 2

(* C23: at every handle_fragment_data call made by the body loop, parsed   *)
(* plus input_left is the length of the datagram, parsed is between 80 and *)
(* that length, and the 16-bit length passed (input_left truncated) is at  *)
(* most the number of bytes of the slice passed, so that the assembler     *)
(* takes no byte beyond the end of the datagram, also when the body is     *)
(* longer than 65535 bytes.                                                *)
C23_SliceHoldsLength ==
    Called =>
        /\ result # "panic"
        /\ \A k \in 1..Len(calls) :
              LET c == calls[k]
              IN  /\ c.parsed + c.input_left = input.len
                  /\ c.parsed >= 80 /\ c.parsed <= input.len
                  /\ c.avail = input.len - c.parsed
                  /\ c.input_len = c.input_left % 65536
                  /\ c.input_len <= c.avail
                  /\ c.ret <= c.avail
                  /\ ~c.oob

\* a body longer than 65535 bytes: the length passed is the body length less
\* 65536, and the next call is passed 0
C23_Witness ==
    /\ result = "ok" /\ BodyLen(input) > 65535
    /\ Len(calls) = 2
    /\ calls[1].input_left = BodyLen(input)
    /\ calls[1].input_len = BodyLen(input) - 65536
    /\ calls[1].ret = calls[1].input_len
    /\ calls[2].parsed = 80 + calls[1].ret
    /\ calls[2].input_len = 0 /\ calls[2].avail = 65536

====
